---------------------------- MODULE Spec2Model ----------------------------
(***************************************************************************)
(* Text-metrics engine of the corpus analyser (src/text_utils.py) and the  *)
(* corpus aggregator (src/main.py).                                        *)
(*                                                                         *)
(* A text is a sequence of one-character strings.  Numbers that the code   *)
(* rounds to k decimals are kept as integers in units of 10^-k             *)
(* (ttr and lexical_density: 10^-4; avg_word_length, words_per_sentence    *)
(* and readability_score: 10^-2).                                          *)
(*                                                                         *)
(* Spec:       one call of preprocess_text, get_most_common_words or       *)
(*             analyze_single_text on a text.                              *)
(* SpecReport: generate_report on a list of metric records, and once more  *)
(*             on the same records in another order.                       *)
(* SpecCorpus: the batch run of main(): the loop of analyze_corpus over    *)
(*             the files of the corpus folder, one document per step,      *)
(*             then load_metadata and enrich_results_with_metadata,        *)
(*             save_statistics_csv and the report; a KeyboardInterrupt     *)
(*             may arrive between two documents.                           *)
(***************************************************************************)
EXTENDS Integers, Sequences, FiniteSets, TLC

VARIABLES
    pc,         \* position of the caller: "start" / "report_start" before the call, then the name of what was called
    isString,   \* whether the text is a str; FALSE: it is None (read_text_file failed)
    text,       \* the argument / the content of the document
    filename,   \* name of the document
    nArg,       \* argument n of get_most_common_words
    words,      \* value returned by preprocess_text
    common,     \* value returned by get_most_common_words
    record,     \* value returned by analyze_single_text
    results,    \* list of metric records handed to generate_report
    report,     \* corpus summary computed by generate_report
    folder,     \* the corpus folder: file name -> state of the file
    text_files, \* sorted(text_files) of analyze_corpus
    idx,        \* number of documents analyze_corpus has gone through
    partial,    \* the list `results` local to analyze_corpus
    metadata,   \* the dict returned by load_metadata
    csv         \* what save_statistics_csv returned and left in statistics.csv

corpusVars == <<folder, text_files, idx, partial, metadata, csv>>

vars == <<pc, isString, text, filename, nArg, words, common, record, results, report,
          folder, text_files, idx, partial, metadata, csv>>

----------------------------------------------------------------------------
(* Bounds of the checked inputs *)

MaxLen == 4        \* every text over ShortAlphabet up to this length is an input
MaxWords == 61     \* longest generated many-word text
MaxSent == 3       \* most sentence fragments of a generated many-word text
MaxN == 4          \* largest n handed to get_most_common_words
MaxRecords == 3    \* longest record list handed to generate_report

----------------------------------------------------------------------------
(* Characters: Python's str.lower, and the classes \w and \s of re *)

UpperLetters == <<"A","B","C","D","E","F","G","H","I","J","K","L","M",
                  "N","O","P","Q","R","S","T","U","V","W","X","Y","Z">>
LowerLetters == <<"a","b","c","d","e","f","g","h","i","j","k","l","m",
                  "n","o","p","q","r","s","t","u","v","w","x","y","z">>
Digits == <<"0","1","2","3","4","5","6","7","8","9">>

Range(s) == {s[i] : i \in 1..Len(s)}

IsLetter(c) == c \in Range(UpperLetters) \cup Range(LowerLetters)
IsDigit(c) == c \in Range(Digits)

\* re class \s
IsSpace(c) == c \in {" ", "\n", "\t"}

\* re class \w: alphanumerics and the underscore
IsWordChar(c) == IsLetter(c) \/ IsDigit(c) \/ c = "_"

LowerChar(c) ==
    IF c \in Range(UpperLetters)
    THEN LowerLetters[CHOOSE i \in 1..26 : UpperLetters[i] = c]
    ELSE c

\* text.lower()
Lowercase(t) == [i \in 1..Len(t) |-> LowerChar(t[i])]

\* re.sub(r'[^\w\s]', ' ', text)
SubNonWord(t) ==
    [i \in 1..Len(t) |-> IF IsWordChar(t[i]) \/ IsSpace(t[i]) THEN t[i] ELSE " "]

\* re.sub(r'\s+', ' ', text): each maximal run of whitespace becomes one space.
\* A whitespace character that follows another one is dropped, the first of a
\* run becomes a space; the positions lo..hi are handled in two halves.
RECURSIVE CollapseRange(_, _, _)
CollapseRange(t, lo, hi) ==
    IF lo > hi THEN <<>>
    ELSE IF lo = hi
         THEN IF IsSpace(t[lo])
              THEN IF lo > 1 /\ IsSpace(t[lo - 1]) THEN <<>> ELSE <<" ">>
              ELSE <<t[lo]>>
         ELSE LET mid == (lo + hi) \div 2
              IN  CollapseRange(t, lo, mid) \o CollapseRange(t, mid + 1, hi)

CollapseSpaces(t) == CollapseRange(t, 1, Len(t))

\* str.strip(): drop leading and trailing whitespace
Strip(t) ==
    LET keep == {i \in 1..Len(t) : ~IsSpace(t[i])}
    IN  IF keep = {} THEN <<>>
        ELSE LET lo == CHOOSE i \in keep : \A j \in keep : i <= j
                 hi == CHOOSE i \in keep : \A j \in keep : i >= j
             IN  SubSeq(t, lo, hi)

\* the piece of t that starts at position p and runs up to the next character
\* of stops (or the end of t); empty when t[p] is in stops or p is past the end
PieceAt(t, p, stops) ==
    IF p > Len(t) \/ t[p] \in stops THEN <<>>
    ELSE LET q == CHOOSE j \in p..Len(t) :
                      /\ j = Len(t) \/ t[j + 1] \in stops
                      /\ \A k \in p..j : t[k] \notin stops
         IN  SubSeq(t, p, q)

\* the pieces that start at a position of lo..hi, in order
RECURSIVE PiecesRange(_, _, _, _, _)
PiecesRange(t, starts, stops, lo, hi) ==
    IF lo > hi THEN <<>>
    ELSE IF lo = hi
         THEN IF lo \in starts THEN <<PieceAt(t, lo, stops)>> ELSE <<>>
         ELSE LET mid == (lo + hi) \div 2
              IN  PiecesRange(t, starts, stops, lo, mid)
                  \o PiecesRange(t, starts, stops, mid + 1, hi)

Whitespace == {" ", "\n", "\t"}

\* str.split(): the maximal runs of non-whitespace characters, in order
Split(t) ==
    LET starts == {p \in 1..Len(t) : ~IsSpace(t[p]) /\ (p = 1 \/ IsSpace(t[p - 1]))}
    IN  PiecesRange(t, starts, Whitespace, 1, Len(t))

\* str.split(sep) (runs = FALSE) and re.split on runs of separators
\* (runs = TRUE): the pieces between separators, empty pieces included.
\* A piece starts at position 1 and behind every separator (every run of them).
SplitOn(t, seps, runs) ==
    LET starts == {1} \cup
                  {p \in 2..(Len(t) + 1) :
                      /\ t[p - 1] \in seps
                      /\ ~runs \/ p > Len(t) \/ t[p] \notin seps}
    IN  PiecesRange(t, starts, seps, 1, Len(t) + 1)

----------------------------------------------------------------------------
(* src/text_utils.py *)

\* preprocess_text with underscores deleted from the tokens after the split
preprocess_text_strips_underscores(isStr, t) ==
    IF t = <<>> \/ ~isStr THEN <<>>
    ELSE LET ws == Split(Strip(CollapseSpaces(SubNonWord(Lowercase(t)))))
         IN  [i \in 1..Len(ws) |-> SelectSeq(ws[i], LAMBDA c : c # "_")]

preprocess_text(isStr, t) ==
    IF t = <<>> \/ ~isStr THEN <<>>
    ELSE Split(Strip(CollapseSpaces(SubNonWord(Lowercase(t)))))

count_words(t) == Len(preprocess_text(TRUE, t))

count_unique_words(t) == Cardinality(Range(preprocess_text(TRUE, t)))

\* round(num / den, k) as an integer in units of 10^-k, scale = 10^k:
\* nearest, ties to even
RoundScaled(num, den, scale) ==
    LET n == num * scale
        q == n \div den
        r == n % den
    IN  IF 2 * r < den THEN q
        ELSE IF 2 * r > den THEN q + 1
        ELSE IF q % 2 = 0 THEN q ELSE q + 1

\* calculate_ttr with the ratio inverted
calculate_ttr_inverted(t) ==
    LET total_words == count_words(t)
        unique_words == count_unique_words(t)
    IN  IF total_words = 0 THEN 0
        ELSE RoundScaled(total_words, unique_words, 10000)

calculate_ttr(t) ==
    LET total_words == count_words(t)
        unique_words == count_unique_words(t)
    IN  IF total_words = 0 THEN 0
        ELSE RoundScaled(unique_words, total_words, 10000)

count_lines(t) ==
    IF t = <<>> THEN 0
    ELSE LET lines == SplitOn(t, {"\n"}, FALSE)
         IN  Cardinality({i \in 1..Len(lines) : Strip(lines[i]) # <<>>})


\* collections.Counter(words): (word, count) items in order of first occurrence
RECURSIVE CounterFrom(_, _, _)
CounterFrom(ws, i, items) ==
    IF i > Len(ws) THEN items
    ELSE LET at == {k \in 1..Len(items) : items[k][1] = ws[i]}
         IN  IF at = {}
             THEN CounterFrom(ws, i + 1, Append(items, <<ws[i], 1>>))
             ELSE LET k == CHOOSE k \in at : TRUE
                  IN  CounterFrom(ws, i + 1,
                                  [items EXCEPT ![k] = <<items[k][1], items[k][2] + 1>>])

Counter(ws) == CounterFrom(ws, 1, <<>>)

\* an unstable sort: an item goes in front of the items of equal count
InsertByCount_unstable(sorted, item) ==
    LET before == {k \in 1..Len(sorted) : sorted[k][2] > item[2]}
        pos == Cardinality(before)
    IN  SubSeq(sorted, 1, pos) \o <<item>> \o SubSeq(sorted, pos + 1, Len(sorted))

\* sorted(items, key=count, reverse=True): stable, so items of equal count keep
\* their order; an item goes behind every item whose count is not smaller
InsertByCount(sorted, item) ==
    LET before == {k \in 1..Len(sorted) : sorted[k][2] >= item[2]}
        pos == Cardinality(before)
    IN  SubSeq(sorted, 1, pos) \o <<item>> \o SubSeq(sorted, pos + 1, Len(sorted))

RECURSIVE SortedFrom(_, _, _)
SortedFrom(items, i, sorted) ==
    IF i > Len(items) THEN sorted
    ELSE SortedFrom(items, i + 1, InsertByCount(sorted, items[i]))

SortedByCount(items) == SortedFrom(items, 1, <<>>)

Min(a, b) == IF a <= b THEN a ELSE b

\* Counter.most_common(n) = heapq.nlargest(n, items, key=count),
\* which is sorted(items, key=count, reverse=True)[:n]
most_common(items, n) ==
    LET sorted == SortedByCount(items)
    IN  SubSeq(sorted, 1, Min(n, Len(sorted)))

get_most_common_words(t, n) ==
    LET ws == preprocess_text(TRUE, t)
    IN  IF ws = <<>> THEN <<>>
        ELSE most_common(Counter(ws), n)

RECURSIVE SumLen(_, _)
SumLen(ws, i) == IF i > Len(ws) THEN 0 ELSE Len(ws[i]) + SumLen(ws, i + 1)

average_word_length(t) ==
    LET ws == preprocess_text(TRUE, t)
    IN  IF ws = <<>> THEN 0
        ELSE RoundScaled(SumLen(ws, 1), Len(ws), 100)

\* a scan that keeps the last of the longest words
RECURSIVE MaxByLen_last(_, _, _)
MaxByLen_last(ws, i, best) ==
    IF i > Len(ws) THEN best
    ELSE MaxByLen_last(ws, i + 1, IF Len(ws[i]) >= Len(best) THEN ws[i] ELSE best)

\* max(words, key=len): one scan from the left, a later word replaces the
\* best so far only when it is strictly longer
RECURSIVE MaxByLen(_, _, _)
MaxByLen(ws, i, best) ==
    IF i > Len(ws) THEN best
    ELSE MaxByLen(ws, i + 1, IF Len(ws[i]) > Len(best) THEN ws[i] ELSE best)

find_longest_word(t) ==
    LET ws == preprocess_text(TRUE, t)
    IN  IF ws = <<>> THEN <<>>
        ELSE MaxByLen(ws, 2, ws[1])

\* calculate_lexical_density counting the words of 3 characters too
calculate_lexical_density_ge3(t) ==
    LET ws == preprocess_text(TRUE, t)
    IN  IF ws = <<>> THEN 0
        ELSE LET lexical_words == SelectSeq(ws, LAMBDA w : Len(w) >= 3)
             IN  RoundScaled(Len(lexical_words), Len(ws), 10000)

calculate_lexical_density(t) ==
    LET ws == preprocess_text(TRUE, t)
    IN  IF ws = <<>> THEN 0
        ELSE LET lexical_words == SelectSeq(ws, LAMBDA w : Len(w) > 3)
             IN  RoundScaled(Len(lexical_words), Len(ws), 10000)

calculate_sentence_count(t) ==
    IF t = <<>> THEN 0
    ELSE LET sentences == SplitOn(t, {".", "!", "?"}, TRUE)
         IN  Cardinality({i \in 1..Len(sentences) : Strip(sentences[i]) # <<>>})

\* the score without the upper clamp min(100, ...)
ClampedScoreNum_no_upper(n, s) ==
    LET raw == 120 * s - 2 * n
    IN  IF raw <= 0 THEN 0 ELSE raw

\* max(0, min(100, 100 - (n / s - 10) * 2)) as a fraction over s:
\* 100 - (n/s - 10) * 2 = (120 * s - 2 * n) / s
ClampedScoreNum(n, s) ==
    LET raw == 120 * s - 2 * n
    IN  IF raw >= 100 * s THEN 100 * s
        ELSE IF raw <= 0 THEN 0
        ELSE raw

\* analyze_text_readability without the early exit for an empty word list
analyze_text_readability_no_words_exit(t) ==
    IF t = <<>> THEN [readability_score |-> 0]
    ELSE LET ws == preprocess_text(TRUE, t)
             sentences == calculate_sentence_count(t)
         IN  IF sentences = 0 THEN [readability_score |-> 0]
             ELSE [readability_score |-> RoundScaled(ClampedScoreNum(Len(ws), sentences), sentences, 100),
                   words_per_sentence |-> RoundScaled(Len(ws), sentences, 100),
                   sentences |-> sentences]

analyze_text_readability(t) ==
    IF t = <<>> THEN [readability_score |-> 0]
    ELSE LET ws == preprocess_text(TRUE, t)
             sentences == calculate_sentence_count(t)
         IN  IF ws = <<>> \/ sentences = 0 THEN [readability_score |-> 0]
             ELSE [readability_score |-> RoundScaled(ClampedScoreNum(Len(ws), sentences), sentences, 100),
                   words_per_sentence |-> RoundScaled(Len(ws), sentences, 100),
                   sentences |-> sentences]

----------------------------------------------------------------------------
(* src/main.py: analyze_single_text *)

\* str(count): decimal digits of a natural number
RECURSIVE ToDecimal(_)
ToDecimal(n) ==
    IF n < 10 THEN <<Digits[n + 1]>>
    ELSE Append(ToDecimal(n \div 10), Digits[(n % 10) + 1])

\* ", ".join([f"{word}({count})" for word, count in most_common])
RECURSIVE JoinTopWords(_, _)
JoinTopWords(pairs, i) ==
    IF i > Len(pairs) THEN <<>>
    ELSE (IF i > 1 THEN <<",", " ">> ELSE <<>>)
         \o pairs[i][1] \o <<"(">> \o ToDecimal(pairs[i][2]) \o <<")">>
         \o JoinTopWords(pairs, i + 1)

\* the empty dict returned for a file that could not be read
EmptyRecord == <<>>

\* statistics.csv before save_statistics_csv has run
NoCsv == [saved |-> FALSE, header |-> <<>>, rows |-> <<>>]

\* isStr = FALSE: read_text_file returned None.
\* file_size: the texts are ASCII, one byte per character.
analyze_single_text(isStr, content, fname) ==
    IF ~isStr THEN EmptyRecord
    ELSE LET base == [filename |-> fname,
                      word_count |-> count_words(content),
                      unique_words |-> count_unique_words(content),
                      ttr |-> calculate_ttr(content),
                      line_count |-> count_lines(content),
                      avg_word_length |-> average_word_length(content),
                      longest_word |-> find_longest_word(content),
                      lexical_density |-> calculate_lexical_density(content),
                      file_size |-> Len(content)]
             readability == analyze_text_readability(content)
             most_common_words == get_most_common_words(content, 3)
         IN  ("top_words" :> JoinTopWords(most_common_words, 1)) @@ readability @@ base

----------------------------------------------------------------------------
(* Inputs *)

ShortAlphabet == {"A", "a", "b", "1", "_", " ", "\n", ".", ","}

ShortTexts == UNION {[1..n -> ShortAlphabet] : n \in 0..MaxLen}

RECURSIVE Repeat(_, _)
Repeat(piece, k) == IF k <= 0 THEN <<>> ELSE piece \o Repeat(piece, k - 1)

\* n words and s sentence fragments: "a a ... a .,.,"
ManyWords(n, s) == Repeat(<<"a", " ">>, n) \o Repeat(<<".", ",">>, s - 1)

LongTexts == {ManyWords(n, s) : n \in 1..MaxWords, s \in 1..MaxSent}

\* "Hello hello WORLD! Hello?"
HelloText == <<"H","e","l","l","o"," ","h","e","l","l","o"," ",
               "W","O","R","L","D","!"," ","H","e","l","l","o","?">>

\* "b a a c d c e"
TiesText == <<"b"," ","a"," ","a"," ","c"," ","d"," ","c"," ","e">>

\* "ab, abcd abcde\nxyzw 12345!"
MixedText == <<"a","b",","," ","a","b","c","d"," ","a","b","c","d","e","\n",
               "x","y","z","w"," ","1","2","3","4","5","!">>

ScenarioTexts == {HelloText, TiesText, MixedText}

Texts == ShortTexts \cup LongTexts \cup ScenarioTexts

FileNames == {"a.txt"}

----------------------------------------------------------------------------
(* The text engine: one call of a function of text_utils / analyze_single_text *)

Init ==
    /\ pc = "start"
    /\ \/ isString = TRUE /\ text \in Texts
       \/ isString = FALSE /\ text = <<>>
    /\ filename \in FileNames
    /\ nArg = 0
    /\ words = <<>>
    /\ common = <<>>
    /\ record = EmptyRecord
    /\ results = <<>>
    /\ report = EmptyRecord
    /\ folder = <<>>
    /\ text_files = <<>>
    /\ idx = 0
    /\ partial = <<>>
    /\ metadata = <<>>
    /\ csv = NoCsv

PreprocessText ==
    /\ pc = "start"
    /\ words' = preprocess_text(isString, text)
    /\ pc' = "preprocess_text"
    /\ UNCHANGED <<isString, text, filename, nArg, common, record, results, report>>
    /\ UNCHANGED corpusVars

GetMostCommonWords ==
    /\ pc = "start"
    /\ isString
    /\ \E n \in 0..MaxN :
          /\ nArg' = n
          /\ common' = get_most_common_words(text, n)
    /\ pc' = "get_most_common_words"
    /\ UNCHANGED <<isString, text, filename, words, record, results, report>>
    /\ UNCHANGED corpusVars

AnalyzeSingleText ==
    /\ pc = "start"
    /\ record' = analyze_single_text(isString, text, filename)
    /\ pc' = "analyze_single_text"
    /\ UNCHANGED <<isString, text, filename, nArg, words, common, results, report>>
    /\ UNCHANGED corpusVars

Next == PreprocessText \/ GetMostCommonWords \/ AnalyzeSingleText

Spec == Init /\ [][Next]_vars

----------------------------------------------------------------------------
(* Python floats (IEEE 754 binary64) of generate_report.                   *)
(* A non-negative float below 2^15 is the exact number                     *)
(* (sum of f[i] * LimbBase^(i-1)) / 2^FracBits, written as NumLimbs limbs, *)
(* least significant first; every value met here is at least 2^-37 or 0.   *)
(* sum() adds the floats one after the other (CPython up to 3.11).         *)

LimbBits == 15
LimbBase == 2^LimbBits
NumLimbs == 7
FracBits == LimbBits * (NumLimbs - 1)

FloatZero == [i \in 1..NumLimbs |-> 0]

\* float(n) for an int 0 <= n < LimbBase
FloatOfInt(n) == [i \in 1..NumLimbs |-> IF i = NumLimbs THEN n ELSE 0]

\* exact sum of two limb sequences
RECURSIVE AddLimbsFrom(_, _, _, _, _)
AddLimbsFrom(a, b, i, carry, acc) ==
    IF i > NumLimbs THEN acc
    ELSE LET t == a[i] + b[i] + carry
         IN  AddLimbsFrom(a, b, i + 1, t \div LimbBase, [acc EXCEPT ![i] = t % LimbBase])

AddLimbs(a, b) == AddLimbsFrom(a, b, 1, 0, FloatZero)

\* exact quotient and remainder of a limb sequence by an int 0 < d < 2^15
RECURSIVE DivLimbsFrom(_, _, _, _, _)
DivLimbsFrom(a, d, i, rem, acc) ==
    IF i = 0 THEN <<acc, rem>>
    ELSE LET cur == rem * LimbBase + a[i]
         IN  DivLimbsFrom(a, d, i - 1, cur % d, [acc EXCEPT ![i] = cur \div d])

DivLimbs(a, d) == DivLimbsFrom(a, d, NumLimbs, 0, FloatZero)

\* bit k (0 = least significant) of a limb sequence
BitOf(a, k) == (a[(k \div LimbBits) + 1] \div 2^(k % LimbBits)) % 2

\* position of the leading 1 bit of a non-zero limb sequence
LeadingBit(a) ==
    LET top == CHOOSE i \in 1..NumLimbs : a[i] # 0 /\ \A j \in (i + 1)..NumLimbs : a[j] = 0
        lg == CHOOSE k \in 0..(LimbBits - 1) : 2^k <= a[top] /\ a[top] < 2^(k + 1)
    IN  LimbBits * (top - 1) + lg

\* the float nearest to an exact value (a, plus something below the last bit
\* of a when inexact): 53 significant bits, round half to even
RoundToFloat(a, inexact) ==
    IF a = FloatZero THEN FloatZero
    ELSE LET c == LeadingBit(a) - 52
         IN  IF c <= 0 THEN a
             ELSE LET limb == (c \div LimbBits) + 1
                      unit == 2^(c % LimbBits)
                      up == /\ BitOf(a, c - 1) = 1
                            /\ \/ inexact
                               \/ BitOf(a, c) = 1
                               \/ \E k \in 0..(c - 2) : BitOf(a, k) = 1
                      kept == [i \in 1..NumLimbs |->
                                  IF i < limb THEN 0
                                  ELSE IF i = limb THEN (a[i] \div unit) * unit
                                  ELSE a[i]]
                      ulp == [i \in 1..NumLimbs |-> IF i = limb THEN unit ELSE 0]
                  IN  IF up THEN AddLimbs(kept, ulp) ELSE kept

\* x + y on floats
FloatAdd(x, y) == RoundToFloat(AddLimbs(x, y), FALSE)

\* x / n on a float x and an int n
FloatDivInt(x, n) ==
    LET qr == DivLimbs(x, n)
    IN  RoundToFloat(qr[1], qr[2] # 0)

\* the float nearest to num / den: the value of round(x, k) that is written
\* num / 10^k, and the float of a decimal literal
FloatOfRatio(num, den) == FloatDivInt(FloatOfInt(num), den)

\* x > y on floats
FloatGreater(x, y) ==
    \E i \in 1..NumLimbs : x[i] > y[i] /\ \A j \in (i + 1)..NumLimbs : x[j] = y[j]

\* sum(values): starts from the int 0 and adds the floats from left to right
RECURSIVE FloatSumFrom(_, _, _)
FloatSumFrom(values, i, acc) ==
    IF i > Len(values) THEN acc
    ELSE FloatSumFrom(values, i + 1, FloatAdd(acc, values[i]))

FloatSum(values) == FloatSumFrom(values, 1, FloatZero)

\* exact product of a limb sequence and an int 0 <= m <= 10000
RECURSIVE MulLimbsFrom(_, _, _, _, _)
MulLimbsFrom(a, m, i, carry, acc) ==
    IF i > NumLimbs THEN acc
    ELSE LET t == a[i] * m + carry
         IN  MulLimbsFrom(a, m, i + 1, t \div LimbBase, [acc EXCEPT ![i] = t % LimbBase])

\* f"{x:.kf}" as an integer in units of 10^-k, scale = 10^k: the exact value
\* of the float times scale (below LimbBase), rounded to the nearest integer,
\* half to even
FloatFormat(x, scale) ==
    LET scaled == MulLimbsFrom(x, scale, 1, 0, FloatZero)
        whole == scaled[NumLimbs]
        frac == [scaled EXCEPT ![NumLimbs] = 0]
        half == [i \in 1..NumLimbs |-> IF i = NumLimbs - 1 THEN LimbBase \div 2 ELSE 0]
    IN  IF FloatGreater(frac, half) THEN whole + 1
        ELSE IF frac = half THEN whole + (whole % 2)
        ELSE whole

----------------------------------------------------------------------------
(* src/main.py: generate_report.  The report is a text; it is kept as the   *)
(* values that its lines print (a mean printed with k decimals as an       *)
(* integer in units of 10^-k, a record as its position in the list); the   *)
(* labels are named in English.                                            *)

RECURSIVE SumField(_, _, _)
SumField(rs, field, i) ==
    IF i > Len(rs) THEN 0 ELSE rs[i][field] + SumField(rs, field, i + 1)

\* max(results, key=...): the index of the first record with the largest key;
\* a later record replaces the best so far only when its key is greater
RECURSIVE ArgMax(_, _, _, _)
ArgMax(rs, field, i, best) ==
    IF i > Len(rs) THEN best
    ELSE ArgMax(rs, field, i + 1, IF rs[i][field] > rs[best][field] THEN i ELSE best)

\* a scan that keeps the last of the smallest records
RECURSIVE ArgMin_last(_, _, _, _)
ArgMin_last(rs, field, i, best) ==
    IF i > Len(rs) THEN best
    ELSE ArgMin_last(rs, field, i + 1, IF rs[i][field] <= rs[best][field] THEN i ELSE best)

\* min(results, key=...): the index of the first record with the smallest key
RECURSIVE ArgMin(_, _, _, _)
ArgMin(rs, field, i, best) ==
    IF i > Len(rs) THEN best
    ELSE ArgMin(rs, field, i + 1, IF rs[i][field] < rs[best][field] THEN i ELSE best)

\* "Нет данных для отчета."
NoReport == [no_data |-> TRUE]

generate_report(rs) ==
    IF rs = <<>> THEN NoReport
    ELSE LET ttr_values == [i \in 1..Len(rs) |-> FloatOfRatio(rs[i].ttr, 10000)]
             word_lengths == [i \in 1..Len(rs) |-> FloatOfRatio(rs[i].avg_word_length, 100)]
             avg_ttr == FloatDivInt(FloatSum(ttr_values), Len(rs))
             avg_word_len == FloatDivInt(FloatSum(word_lengths), Len(rs))
         IN  [count |-> Len(rs),
              total_words |-> SumField(rs, "word_count", 1),
              total_unique_words |-> SumField(rs, "unique_words", 1),
              avg_ttr_4f |-> FloatFormat(avg_ttr, 10000),
              avg_ttr_3f |-> FloatFormat(avg_ttr, 1000),
              avg_word_length_2f |-> FloatFormat(avg_word_len, 100),
              avg_word_length_1f |-> FloatFormat(avg_word_len, 10),
              max_words |-> ArgMax(rs, "word_count", 2, 1),
              min_words |-> ArgMin(rs, "word_count", 2, 1),
              max_ttr |-> ArgMax(rs, "ttr", 2, 1),
              min_ttr |-> ArgMin(rs, "ttr", 2, 1),
              diversity |-> IF FloatGreater(avg_ttr, FloatOfRatio(7, 10)) THEN "high"
                            ELSE IF FloatGreater(avg_ttr, FloatOfRatio(5, 10)) THEN "medium"
                            ELSE "low",
              word_len_desc |-> IF FloatGreater(avg_word_len, FloatOfInt(6)) THEN "long"
                                ELSE IF FloatGreater(avg_word_len, FloatOfInt(4)) THEN "medium"
                                ELSE "short",
              min_word_count |-> rs[ArgMin(rs, "word_count", 2, 1)].word_count,
              max_word_count |-> rs[ArgMax(rs, "word_count", 2, 1)].word_count]

----------------------------------------------------------------------------
(* The aggregator: generate_report on a list of records, and again on the  *)
(* same records in another order                                           *)

\* word_count, unique_words and avg_word_length (in 0.01) of the records
MetricsPool ==
    {<<100, 80, 450>>, <<20, 6, 400>>, <<20, 12, 650>>, <<20, 14, 500>>,
     <<20, 16, 350>>, <<0, 0, 0>>}

DocNames == <<"doc1.txt", "doc2.txt", "doc3.txt", "doc4.txt", "doc5.txt">>

\* the part of a metric record that generate_report aggregates
MetricRecord(name, m) ==
    [filename |-> name,
     word_count |-> m[1],
     unique_words |-> m[2],
     ttr |-> IF m[1] = 0 THEN 0 ELSE RoundScaled(m[2], m[1], 10000),
     avg_word_length |-> m[3]]

\* record lists as analyze_corpus returns them: one record per file, by file name
RecordLists ==
    UNION {{[i \in 1..n |-> MetricRecord(DocNames[i], ms[i])] : ms \in [1..n -> MetricsPool]} :
              n \in 0..MaxRecords}

InitReport ==
    /\ pc = "report_start"
    /\ results \in RecordLists
    /\ report = EmptyRecord
    /\ isString = TRUE
    /\ text = <<>>
    /\ filename = "a.txt"
    /\ nArg = 0
    /\ words = <<>>
    /\ common = <<>>
    /\ record = EmptyRecord
    /\ folder = <<>>
    /\ text_files = <<>>
    /\ idx = 0
    /\ partial = <<>>
    /\ metadata = <<>>
    /\ csv = NoCsv

GenerateReport ==
    /\ pc = "report_start"
    /\ report' = generate_report(results)
    /\ pc' = "generate_report"
    /\ UNCHANGED <<isString, text, filename, nArg, words, common, record, results>>
    /\ UNCHANGED corpusVars

\* generate_report called again with the same records in another order
Reaggregate ==
    /\ pc = "generate_report"
    /\ \E p \in Permutations(1..Len(results)) :
          /\ results' = [i \in 1..Len(results) |-> results[p[i]]]
          /\ report' = generate_report(results')
    /\ pc' = "reaggregate"
    /\ UNCHANGED <<isString, text, filename, nArg, words, common, record>>
    /\ UNCHANGED corpusVars

NextReport == GenerateReport \/ Reaggregate

SpecReport == InitReport /\ [][NextReport]_vars

----------------------------------------------------------------------------
(* src/file_utils.py: the corpus folder, get_files_in_folder, read_text_file *)

\* number of .txt documents a corpus folder may hold
MaxFiles == 3

\* every name of the model in ascending order of str
NameOrder == DocNames \o <<"notes.md", "old.txt">>

NameRank(name) == CHOOSE i \in 1..Len(NameOrder) : NameOrder[i] = name

\* list.sort() / sorted() on paths of one folder: insertion into a sorted list
RECURSIVE InsertByName(_, _)
InsertByName(sorted, name) ==
    IF sorted = <<>> THEN <<name>>
    ELSE IF NameRank(name) < NameRank(Head(sorted)) THEN <<name>> \o sorted
    ELSE <<Head(sorted)>> \o InsertByName(Tail(sorted), name)

RECURSIVE SortNamesFrom(_, _, _)
SortNamesFrom(names, i, sorted) ==
    IF i > Len(names) THEN sorted
    ELSE SortNamesFrom(names, i + 1, InsertByName(sorted, names[i]))

SortNames(names) == SortNamesFrom(names, 1, <<>>)

\* listing: the names in the order of os.listdir; kept are the regular files
\* whose name ends with the extension, sorted
get_files_in_folder(dir, listing, extension) ==
    SortNames(SelectSeq(listing, LAMBDA item : dir[item].is_file /\ dir[item].ext = extension))

\* [isStr |-> FALSE]: None.  status is what the path is when it is read:
\* "absent" (removed since the listing), "not_file", "denied"
\* (PermissionError), "undecodable" (UnicodeDecodeError) or "ok"
read_text_file_empty_on_error(entry) ==
    IF entry.status = "ok" THEN [isStr |-> TRUE, content |-> entry.content]
    ELSE [isStr |-> TRUE, content |-> <<>>]

read_text_file(entry) ==
    IF entry.status = "absent" THEN [isStr |-> FALSE, content |-> <<>>]
    ELSE IF entry.status = "not_file" THEN [isStr |-> FALSE, content |-> <<>>]
    ELSE IF entry.status \in {"denied", "undecodable"} THEN [isStr |-> FALSE, content |-> <<>>]
    ELSE [isStr |-> TRUE, content |-> entry.content]

----------------------------------------------------------------------------
(* src/main.py: load_metadata, enrich_results_with_metadata *)

\* a dict keeps its keys in the order of their first insertion: a sequence
\* of <<key, value>> pairs
DictHas(d, key) == \E i \in 1..Len(d) : d[i][1] = key

DictGet(d, key) == d[CHOOSE i \in 1..Len(d) : d[i][1] = key][2]

\* d[key] = value
DictSet(d, key, value) ==
    IF DictHas(d, key)
    THEN [i \in 1..Len(d) |-> IF d[i][1] = key THEN <<key, value>> ELSE d[i]]
    ELSE Append(d, <<key, value>>)

\* a.update(b) on records: the keys of b win
DictUpdate(a, b) == b @@ a

RECURSIVE LoadRows(_, _, _)
LoadRows(data, i, md) ==
    IF i > Len(data) THEN md
    ELSE LET item == data[i]
             fname == IF "filename" \in DOMAIN item THEN item.filename ELSE ""
         IN  LoadRows(data, i + 1, IF fname # "" THEN DictSet(md, fname, item) ELSE md)

\* file: [exists |-> whether data/metadata.csv is there and read_csv_file
\* could read it, rows |-> the dicts of csv.DictReader]
load_metadata(file) ==
    IF file.exists THEN LoadRows(file.rows, 1, <<>>) ELSE <<>>

enrich_results_with_metadata(rs, md) ==
    IF md = <<>> THEN rs
    ELSE [i \in 1..Len(rs) |->
             IF DictHas(md, rs[i].filename)
             THEN DictUpdate(rs[i], DictGet(md, rs[i].filename))
             ELSE rs[i]]

----------------------------------------------------------------------------
(* src/main.py: save_statistics_csv; src/file_utils.py: write_csv_file *)

\* every key of the model in ascending order of str
KeyOrder ==
    <<"author", "avg_word_length", "file_size", "filename", "lexical_density",
      "line_count", "longest_word", "readability_score", "sentences", "title",
      "top_words", "ttr", "unique_words", "word_count", "words_per_sentence", "year">>

\* list.sort() on a list of distinct keys
SortKeys(keys) == SelectSeq(KeyOrder, LAMBDA k : k \in keys)

SeqToSet(s) == {s[i] : i \in 1..Len(s)}

\* csv.DictWriter.writerow: ValueError for a key that is no fieldname, the
\* restval "" for a fieldname the row lacks.  A cell holds the value, not
\* its str().
HasExtraKeys(row, headers) == ~(DOMAIN row \subseteq SeqToSet(headers))

CsvRow(row, headers) ==
    [j \in 1..Len(headers) |-> IF headers[j] \in DOMAIN row THEN row[headers[j]] ELSE <<>>]

\* the rows written before the first row that raises
RECURSIVE RowsWritten(_, _, _)
RowsWritten(data, headers, i) ==
    IF i > Len(data) \/ HasExtraKeys(data[i], headers) THEN <<>>
    ELSE <<CsvRow(data[i], headers)>> \o RowsWritten(data, headers, i + 1)

\* writable = FALSE: makedirs or open raises, nothing is written
write_csv_file(data, headers, writable) ==
    IF ~writable THEN NoCsv
    ELSE [saved |-> \A i \in 1..Len(data) : ~HasExtraKeys(data[i], headers),
          header |-> headers,
          rows |-> RowsWritten(data, headers, 1)]

basic_headers == <<"filename", "word_count", "unique_words", "ttr">>

save_statistics_csv(rs, writable) ==
    IF rs = <<>> THEN NoCsv
    ELSE LET additional_headers == SortKeys(DOMAIN rs[1] \ SeqToSet(basic_headers))
         IN  write_csv_file(rs, basic_headers \o additional_headers, writable)

----------------------------------------------------------------------------
(* src/main.py: main, analyze_corpus *)

\* the names of the .txt documents of a corpus folder
CorpusNames == {DocNames[i] : i \in 1..MaxFiles}

\* "Ab cd. ab"
PlainText == <<"A","b"," ","c","d","."," ","a","b">>

CorpusTexts == {<<>>, PlainText}

\* a .txt document as get_files_in_folder lists it and read_text_file finds it
DocEntries ==
    {[is_file |-> TRUE, ext |-> ".txt", status |-> "ok", content |-> t] : t \in CorpusTexts}
    \cup {[is_file |-> TRUE, ext |-> ".txt", status |-> st, content |-> <<>>] :
              st \in {"absent", "not_file", "denied", "undecodable"}}

\* what a corpus folder holds besides its documents: a file of another
\* extension and a subfolder whose name ends with .txt
OtherEntries ==
    ("notes.md" :> [is_file |-> TRUE, ext |-> ".md", status |-> "ok", content |-> PlainText])
    @@ ("old.txt" :> [is_file |-> FALSE, ext |-> ".txt", status |-> "not_file", content |-> <<>>])

Folders ==
    UNION {{docs @@ OtherEntries : docs \in [S -> DocEntries]} : S \in SUBSET CorpusNames}

\* the orders in which os.listdir may give the names of a folder
Listings(dir) ==
    LET docs == DOMAIN dir \cap CorpusNames
        n == Cardinality(docs)
    IN  {<<"old.txt">> \o s \o <<"notes.md">> : s \in {t \in [1..n -> docs] : SeqToSet(t) = docs}}

Pushkin == <<"P","u","s","h","k","i","n">>

Blok == <<"B","l","o","k">>

\* data/metadata.csv: absent; without rows; a row for the first document; a
\* row for the second document only; rows with a repeated, an empty and an
\* unknown filename; no filename column; a longest_word column
MetadataFiles ==
    {[exists |-> FALSE, rows |-> <<>>],
     [exists |-> TRUE, rows |-> <<>>],
     [exists |-> TRUE, rows |-> <<[filename |-> "doc1.txt", author |-> Pushkin]>>],
     [exists |-> TRUE, rows |-> <<[filename |-> "doc2.txt", author |-> Blok, year |-> <<"1","9","1","0">>]>>],
     [exists |-> TRUE, rows |-> <<[filename |-> "doc2.txt", author |-> Pushkin],
                                  [filename |-> "", author |-> Blok],
                                  [filename |-> "doc9.txt", author |-> Blok],
                                  [filename |-> "doc2.txt", author |-> Blok]>>],
     [exists |-> TRUE, rows |-> <<[author |-> Pushkin, title |-> <<"x">>]>>],
     [exists |-> TRUE, rows |-> <<[filename |-> "doc1.txt", author |-> Blok, longest_word |-> <<"x","y">>]>>]}

\* corpus_name of main: named after the author of the first metadata row
corpus_name(md) ==
    IF md # <<>> /\ "author" \in DOMAIN md[1][2]
    THEN [by_author |-> TRUE, author |-> md[1][2].author]
    ELSE [by_author |-> FALSE, author |-> <<>>]

InitCorpus ==
    /\ pc = "main"
    /\ folder \in Folders
    /\ text_files = <<>>
    /\ idx = 0
    /\ partial = <<>>
    /\ metadata = <<>>
    /\ csv = NoCsv
    /\ results = <<>>
    /\ report = EmptyRecord
    /\ record = EmptyRecord
    /\ isString = TRUE
    /\ text = <<>>
    /\ filename = "a.txt"
    /\ nArg = 0
    /\ words = <<>>
    /\ common = <<>>

\* main up to the loop of analyze_corpus: without .txt files main returns
ListCorpus ==
    /\ pc = "main"
    /\ \E listing \in Listings(folder) :
          text_files' = SortNames(get_files_in_folder(folder, listing, ".txt"))
    /\ pc' = IF text_files' = <<>> THEN "done" ELSE "analyze_corpus"
    /\ UNCHANGED <<isString, text, filename, nArg, words, common, record, results, report,
                   folder, idx, partial, metadata, csv>>

\* one turn of the loop of analyze_corpus
AnalyzeDocument ==
    /\ pc = "analyze_corpus"
    /\ idx < Len(text_files)
    /\ LET read == read_text_file(folder[text_files[idx + 1]])
       IN  /\ filename' = text_files[idx + 1]
           /\ isString' = read.isStr
           /\ text' = read.content
           /\ record' = analyze_single_text(read.isStr, read.content, text_files[idx + 1])
    /\ partial' = IF record' # EmptyRecord THEN Append(partial, record') ELSE partial
    /\ idx' = idx + 1
    /\ UNCHANGED <<pc, nArg, words, common, results, report, folder, text_files, metadata, csv>>

\* analyze_corpus returns; without results main returns
ReturnResults ==
    /\ pc = "analyze_corpus"
    /\ idx = Len(text_files)
    /\ results' = partial
    /\ pc' = IF partial = <<>> THEN "done" ELSE "analyzed"
    /\ UNCHANGED <<isString, text, filename, nArg, words, common, record, report,
                   folder, text_files, idx, partial, metadata, csv>>

\* KeyboardInterrupt before the next document: it leaves analyze_corpus,
\* whose frame holds partial, and main prints a message in its except clause
Interrupt ==
    /\ pc = "analyze_corpus"
    /\ idx < Len(text_files)
    /\ pc' = "interrupted"
    /\ UNCHANGED <<isString, text, filename, nArg, words, common, record, results, report,
                   folder, text_files, idx, partial, metadata, csv>>

\* main: load_metadata, enrich_results_with_metadata
EnrichResults ==
    /\ pc = "analyzed"
    /\ \E file \in MetadataFiles : metadata' = load_metadata(file)
    /\ results' = enrich_results_with_metadata(results, metadata')
    /\ pc' = "enriched"
    /\ UNCHANGED <<isString, text, filename, nArg, words, common, record, report,
                   folder, text_files, idx, partial, csv>>

\* main: save_statistics_csv
SaveStatistics ==
    /\ pc = "enriched"
    /\ \E writable \in BOOLEAN : csv' = save_statistics_csv(results, writable)
    /\ pc' = "saved"
    /\ UNCHANGED <<isString, text, filename, nArg, words, common, record, results, report,
                   folder, text_files, idx, partial, metadata>>

\* main: generate_report, write_text_file
WriteReport ==
    /\ pc = "saved"
    /\ \E writable \in BOOLEAN :
          report' = ("report_saved" :> writable) @@ ("corpus_name" :> corpus_name(metadata))
                    @@ generate_report(results)
    /\ pc' = "done"
    /\ UNCHANGED <<isString, text, filename, nArg, words, common, record, results,
                   folder, text_files, idx, partial, metadata, csv>>

NextCorpus ==
    \/ ListCorpus
    \/ AnalyzeDocument
    \/ ReturnResults
    \/ Interrupt
    \/ EnrichResults
    \/ SaveStatistics
    \/ WriteReport

SpecCorpus == InitCorpus /\ [][NextCorpus]_vars

----------------------------------------------------------------------------
(* Properties of the tokenizer *)

IsAlnum(c) == IsLetter(c) \/ IsDigit(c)

\* the maximal runs of letters and digits of t, as pairs of first and last position
AlnumRuns(t) ==
    {r \in (1..Len(t)) \X (1..Len(t)) :
        /\ r[1] <= r[2]
        /\ r[1] = 1 \/ ~IsAlnum(t[r[1] - 1])
        /\ r[2] = Len(t) \/ ~IsAlnum(t[r[2] + 1])
        /\ \A k \in r[1]..r[2] : IsAlnum(t[k])}

\* C1: preprocess_text returns exactly the maximal runs of letters and digits
\* of the lowercased text, in order: every other character that is not
\* whitespace, the underscore included, separates tokens; no token is empty;
\* an empty or non-string argument gives the empty sequence.
C1_TokensAreAlnumRuns ==
    pc = "preprocess_text" =>
        IF ~isString \/ text = <<>> THEN words = <<>>
        ELSE LET low == Lowercase(text)
                 runs == AlnumRuns(low)
             IN  /\ Len(words) = Cardinality(runs)
                 /\ \A n \in 1..Len(words) :
                       /\ words[n] # <<>>
                       /\ \A k \in 1..Len(words[n]) : IsAlnum(words[n][k])
                       /\ \E r \in runs :
                             /\ Cardinality({q \in runs : q[1] < r[1]}) = n - 1
                             /\ words[n] = SubSeq(low, r[1], r[2])

\* ' '.join(tokens)
RECURSIVE JoinWithSpaces(_, _)
JoinWithSpaces(ws, i) ==
    IF i > Len(ws) THEN <<>>
    ELSE (IF i > 1 THEN <<" ">> ELSE <<>>) \o ws[i] \o JoinWithSpaces(ws, i + 1)

\* C8: tokenizing the tokens of a text joined with single spaces gives the
\* same tokens in the same order.
C8_TokenizerIdempotent ==
    pc = "preprocess_text" =>
        preprocess_text(TRUE, JoinWithSpaces(words, 1)) = words

\* a text that the tokenizer changed (case, punctuation) and that has several tokens
C8_Witness ==
    /\ pc = "preprocess_text"
    /\ Len(words) >= 2
    /\ JoinWithSpaces(words, 1) # text
    /\ \E i \in 1..Len(text) : text[i] \in Range(UpperLetters)
    /\ \E i \in 1..Len(text) : ~IsWordChar(text[i]) /\ ~IsSpace(text[i])

----------------------------------------------------------------------------
(* Properties of the metric record *)

Analysed == pc = "analyze_single_text" /\ isString

Tokens == preprocess_text(TRUE, text)

CoreKeys == {"filename", "word_count", "unique_words", "ttr", "avg_word_length",
             "longest_word", "lexical_density", "line_count", "top_words",
             "readability_score"}

\* C2: in every record 0 <= ttr <= 1, 0 <= lexical_density <= 1,
\* unique_words <= word_count, 0 <= readability_score <= 100, and word_count
\* and unique_words are 0 exactly when the tokenization is empty.
C2_MetricRanges ==
    Analysed =>
        /\ 0 <= record.ttr /\ record.ttr <= 10000
        /\ 0 <= record.lexical_density /\ record.lexical_density <= 10000
        /\ 0 <= record.unique_words /\ record.unique_words <= record.word_count
        /\ 0 <= record.readability_score /\ record.readability_score <= 10000
        /\ (record.word_count = 0) <=> (Tokens = <<>>)
        /\ (record.unique_words = 0) <=> (Tokens = <<>>)

\* a record with repeated words, a ttr and a readability score inside their ranges
C2_Witness ==
    /\ Analysed
    /\ 0 < record.unique_words /\ record.unique_words < record.word_count
    /\ 0 < record.ttr /\ record.ttr < 10000
    /\ 0 < record.readability_score /\ record.readability_score < 10000

\* C3 as stated: ttr and lexical_density are 0.0 exactly when word_count = 0.
C3_ZeroOnlyWhenNoWords ==
    Analysed =>
        /\ (record.ttr = 0) <=> (record.word_count = 0)
        /\ (record.lexical_density = 0) <=> (record.word_count = 0)

\* C3 amended: ttr is 0.0 exactly when word_count = 0; lexical_density is 0.0
\* exactly when no token is longer than 3 characters (so also for a non-empty
\* tokenization of short tokens).
C3_ZeroCases ==
    Analysed =>
        /\ (record.ttr = 0) <=> (record.word_count = 0)
        /\ (record.lexical_density = 0) <=>
               (\A i \in 1..Len(Tokens) : Len(Tokens[i]) <= 3)
        /\ record.word_count = 0 => record.lexical_density = 0

\* a non-empty text of short tokens only
C3_Witness ==
    /\ Analysed
    /\ record.word_count >= 1
    /\ \E i \in 1..Len(Tokens) : Len(Tokens[i]) = 3
    /\ record.lexical_density = 0
    /\ record.ttr > 0

\* C4: the record always has the core keys; it has words_per_sentence and
\* sentences exactly when the tokenization is non-empty; a non-empty
\* tokenization has at least one sentence; otherwise the readability part is
\* readability_score = 0.0 alone.
C4_RecordKeys ==
    Analysed =>
        /\ CoreKeys \subseteq DOMAIN record
        /\ ("words_per_sentence" \in DOMAIN record) <=> (Tokens # <<>>)
        /\ ("sentences" \in DOMAIN record) <=> (Tokens # <<>>)
        /\ Tokens # <<>> => record.sentences >= 1
        /\ Tokens = <<>> => record.readability_score = 0

\* the record of a non-blank text without words: the readability keys are absent
C4_Witness ==
    /\ Analysed
    /\ text # <<>>
    /\ Tokens = <<>>
    /\ \E i \in 1..Len(text) : ~IsSpace(text[i])
    /\ DOMAIN record = CoreKeys \cup {"file_size"}

----------------------------------------------------------------------------
(* Properties of the readability estimate *)

\* number of non-blank fragments between runs of '.', '!', '?'
Fragments(t) ==
    {r \in (1..Len(t)) \X (1..Len(t)) :
        /\ r[1] <= r[2]
        /\ r[1] = 1 \/ t[r[1] - 1] \in {".", "!", "?"}
        /\ r[2] = Len(t) \/ t[r[2] + 1] \in {".", "!", "?"}
        /\ \A k \in r[1]..r[2] : t[k] \notin {".", "!", "?"}
        /\ \E k \in r[1]..r[2] : ~IsSpace(t[k])}

\* 100 - (n / s - 10) * 2 clamped to 0..100, times s
ClampTimesS(n, s) ==
    IF n <= 10 * s THEN 100 * s
    ELSE IF n >= 60 * s THEN 0
    ELSE 120 * s - 2 * n

Abs(x) == IF x < 0 THEN -x ELSE x

\* word count, sentence count and readability score of the many-word texts
LongReadability ==
    {<<count_words(t), calculate_sentence_count(t),
       analyze_text_readability(t).readability_score>> : t \in LongTexts}

\* C5 as stated: words_per_sentence is word_count / s and readability_score
\* is clamp(100 - (words_per_sentence - 10) * 2, 0, 100), exactly.
C5_ExactReadability ==
    Analysed /\ Tokens # <<>> =>
        LET n == Len(Tokens)
            s == Cardinality(Fragments(text))
        IN  /\ record.sentences = s
            /\ record.words_per_sentence * s = 100 * n
            /\ record.readability_score * s = 100 * ClampTimesS(n, s)

\* C5 amended: sentences = s; words_per_sentence and readability_score are
\* word_count / s and clamp(100 - (word_count / s - 10) * 2, 0, 100) rounded to
\* 2 decimals; the score is 100 when word_count / s <= 10, 0 when
\* word_count / s >= 60, and does not increase with word_count / s.
C5_RoundedReadability ==
    Analysed /\ Tokens # <<>> =>
        LET n == Len(Tokens)
            s == Cardinality(Fragments(text))
        IN  /\ s >= 1
            /\ record.sentences = s
            /\ 2 * Abs(record.words_per_sentence * s - 100 * n) <= s
            /\ 2 * Abs(record.readability_score * s - 100 * ClampTimesS(n, s)) <= s
            /\ n <= 10 * s => record.readability_score = 10000
            /\ n >= 60 * s => record.readability_score = 0
            /\ \A o \in LongReadability :
                  /\ n * o[2] <= o[1] * s => record.readability_score >= o[3]
                  /\ n * o[2] >= o[1] * s => record.readability_score <= o[3]

\* a text whose words per sentence and score are not multiples of 0.01
C5_Witness ==
    /\ Analysed
    /\ record.word_count > 10 * record.sentences
    /\ record.word_count < 60 * record.sentences
    /\ record.word_count % record.sentences # 0
    /\ record.sentences = 3
    /\ record.readability_score * 3 # 100 * ClampTimesS(record.word_count, 3)

----------------------------------------------------------------------------
(* Properties of the word frequencies and of the longest word *)

Occurrences(ws, w) == Cardinality({i \in 1..Len(ws) : ws[i] = w})

FirstOccurrence(ws, w) == CHOOSE i \in 1..Len(ws) : ws[i] = w /\ \A j \in 1..(i - 1) : ws[j] # w

\* C6: get_most_common_words(text, n) returns min(n, number of distinct
\* tokens) pairs of distinct tokens with their numbers of occurrences, by
\* non-increasing count and, for equal counts, by first occurrence; no omitted
\* token occurs more often than a returned one; nothing for no tokens.
C6_MostCommon ==
    pc = "get_most_common_words" =>
        LET ws == Tokens
            returned == {common[i][1] : i \in 1..Len(common)}
        IN  /\ Len(common) = Min(nArg, Cardinality(Range(ws)))
            /\ ws = <<>> => common = <<>>
            /\ \A i \in 1..Len(common) :
                  /\ common[i][1] \in Range(ws)
                  /\ common[i][2] = Occurrences(ws, common[i][1])
            /\ \A i, j \in 1..Len(common) :
                  i < j =>
                     /\ common[i][1] # common[j][1]
                     /\ \/ common[i][2] > common[j][2]
                        \/ /\ common[i][2] = common[j][2]
                           /\ FirstOccurrence(ws, common[i][1]) < FirstOccurrence(ws, common[j][1])
            /\ \A w \in Range(ws) \ returned :
                  \A i \in 1..Len(common) : Occurrences(ws, w) <= common[i][2]

\* ties among the returned words and between a returned and an omitted word
C6_Witness ==
    /\ pc = "get_most_common_words"
    /\ Len(common) = nArg
    /\ nArg < Cardinality(Range(Tokens))
    /\ \E i \in 1..(Len(common) - 1) : common[i][2] = common[i + 1][2]
    /\ \E w \in Range(Tokens) :
          /\ \A i \in 1..Len(common) : common[i][1] # w
          /\ Occurrences(Tokens, w) = common[Len(common)][2]

\* C7: find_longest_word returns the earliest token of maximum length and
\* the empty string when there are no tokens; "Hello hello WORLD! Hello?"
\* gives "hello".
C7_LongestWord ==
    Analysed =>
        LET ws == Tokens
            w == record.longest_word
        IN  /\ ws = <<>> => w = <<>>
            /\ ws # <<>> =>
                  \E i \in 1..Len(ws) :
                     /\ ws[i] = w
                     /\ \A j \in 1..(i - 1) : Len(ws[j]) < Len(w)
                     /\ \A j \in (i + 1)..Len(ws) : Len(ws[j]) <= Len(w)
            /\ text = HelloText => w = <<"h", "e", "l", "l", "o">>

\* "Hello hello WORLD! Hello?": "world" is as long as "hello" and comes later
C7_Witness ==
    /\ Analysed
    /\ text = HelloText
    /\ Tokens[3] = <<"w", "o", "r", "l", "d">>
    /\ record.longest_word = <<"h", "e", "l", "l", "o">>

----------------------------------------------------------------------------
(* Properties of the aggregator *)

Reported == pc \in {"generate_report", "reaggregate"} /\ results # <<>>

\* the first position of rs whose field has the value v
FirstWith(rs, field, v) ==
    CHOOSE i \in 1..Len(rs) : rs[i][field] = v /\ \A j \in 1..(i - 1) : rs[j][field] # v

Largest(rs, field) ==
    CHOOSE v \in {rs[i][field] : i \in 1..Len(rs)} : \A i \in 1..Len(rs) : rs[i][field] <= v

Smallest(rs, field) ==
    CHOOSE v \in {rs[i][field] : i \in 1..Len(rs)} : \A i \in 1..Len(rs) : rs[i][field] >= v

\* C9: the records named for the largest and smallest word_count and ttr are
\* the first records in input order with these values; for word counts
\* [100, 20] and ttrs [0.8, 0.3] max_words is the first record and min_words
\* the second.
C9_FirstExtremes ==
    Reported =>
        /\ report.max_words = FirstWith(results, "word_count", Largest(results, "word_count"))
        /\ report.min_words = FirstWith(results, "word_count", Smallest(results, "word_count"))
        /\ report.max_ttr = FirstWith(results, "ttr", Largest(results, "ttr"))
        /\ report.min_ttr = FirstWith(results, "ttr", Smallest(results, "ttr"))
        /\ ( /\ Len(results) = 2
             /\ results[1].word_count = 100 /\ results[1].ttr = 8000
             /\ results[2].word_count = 20 /\ results[2].ttr = 3000 )
           => report.max_words = 1 /\ report.min_words = 2

\* three records: the first two tie for the largest word count and for the
\* largest ttr, the last two for the smallest word count and the smallest ttr
C9_Witness ==
    /\ Reported
    /\ Len(results) = 3
    /\ results[1].word_count > results[2].word_count
    /\ results[2].word_count = results[3].word_count
    /\ results[1].ttr = results[2].ttr
    /\ results[2].ttr > results[3].ttr
    /\ report.max_words = 1 /\ report.min_words = 2
    /\ report.max_ttr = 1 /\ report.min_ttr = 3

Aggregates(r) ==
    <<r.count, r.total_words, r.total_unique_words,
      r.avg_ttr_4f, r.avg_ttr_3f, r.avg_word_length_2f, r.avg_word_length_1f,
      r.min_word_count, r.max_word_count, r.diversity, r.word_len_desc>>

Ties(rs, field, v) == Cardinality({i \in 1..Len(rs) : rs[i][field] = v}) > 1

\* C10: generate_report on the same records in another order gives the same
\* totals, means, smallest and largest word count and labels; the record named
\* as an extreme changes only when several records tie for that extreme.
C10_OrderIndependent ==
    [][Reported /\ pc' = "reaggregate" =>
          /\ Aggregates(report') = Aggregates(report)
          /\ results'[report'.max_words] # results[report.max_words]
                => Ties(results, "word_count", Largest(results, "word_count"))
          /\ results'[report'.min_words] # results[report.min_words]
                => Ties(results, "word_count", Smallest(results, "word_count"))
          /\ results'[report'.max_ttr] # results[report.max_ttr]
                => Ties(results, "ttr", Largest(results, "ttr"))
          /\ results'[report'.min_ttr] # results[report.min_ttr]
                => Ties(results, "ttr", Smallest(results, "ttr"))]_vars


----------------------------------------------------------------------------
(* The record of an empty and of an unreadable document *)

NumericMetrics == {"word_count", "unique_words", "ttr", "avg_word_length",
                   "lexical_density", "line_count", "readability_score"}

StringMetrics == {"longest_word", "top_words"}

\* C12: the record analyze_single_text returns for an empty document and
\* for a document that could not be read has every numeric metric, equal to
\* 0, and every string metric, empty.
C12_DefaultRecord ==
    pc = "analyze_single_text" /\ (~isString \/ text = <<>>) =>
        /\ NumericMetrics \cup StringMetrics \subseteq DOMAIN record
        /\ \A k \in NumericMetrics : record[k] = 0
        /\ \A k \in StringMetrics : record[k] = <<>>

----------------------------------------------------------------------------
(* Properties of the batch run *)

\* the .txt files of the folder in ascending order of their names
ListedDocs ==
    SelectSeq(NameOrder, LAMBDA name : /\ name \in DOMAIN folder
                                       /\ folder[name].is_file
                                       /\ folder[name].ext = ".txt")

\* the readable ones among the first k of them
ReadableDocs(k) == SelectSeq(SubSeq(ListedDocs, 1, k), LAMBDA name : folder[name].status = "ok")

FileNamesOf(rs) == [i \in 1..Len(rs) |-> rs[i].filename]

\* C11: analyze_corpus goes through the .txt files in ascending order of
\* their names; after k of them its list holds one record for each readable
\* file among the k, in that order, and none for an unreadable one; the list
\* it returns holds the record of every readable file of the folder, whatever
\* files before it could not be read.
C11_OneRecordPerReadableFile ==
    /\ pc = "analyze_corpus" =>
          /\ text_files = ListedDocs
          /\ FileNamesOf(partial) = ReadableDocs(idx)
    /\ pc = "analyzed" =>
          /\ FileNamesOf(results) = ReadableDocs(Len(ListedDocs))
          /\ \A i \in 1..Len(results) :
                results[i] = analyze_single_text(TRUE, folder[results[i].filename].content,
                                                 results[i].filename)
    /\ pc \in {"enriched", "saved", "done"} =>
          FileNamesOf(results) = ReadableDocs(Len(ListedDocs))

\* an unreadable file between two readable ones, all analysed
C11_Witness ==
    /\ pc = "analyzed"
    /\ Len(ListedDocs) >= 3
    /\ folder[ListedDocs[1]].status = "ok"
    /\ folder[ListedDocs[2]].status # "ok"
    /\ folder[ListedDocs[3]].status = "ok"
    /\ Len(results) = 2

\* every key of some record
AllKeys(rs) == UNION {DOMAIN rs[i] : i \in 1..Len(rs)}

\* statistics.csv could be opened for writing: its header row is there
CsvOpened == csv.header # <<>>

\* C13: for a non-empty list of records and a writable path
\* save_statistics_csv returns True, the header row is filename, word_count,
\* unique_words, ttr followed by every other key of any record in sorted
\* order, and there is one row per record.
C13_CsvHasAllKeys ==
    pc = "saved" /\ results # <<>> /\ CsvOpened =>
        /\ csv.saved
        /\ csv.header = basic_headers \o SortKeys(AllKeys(results) \ SeqToSet(basic_headers))
        /\ Len(csv.rows) = Len(results)

\* C14: when the batch run was interrupted between two documents after
\* at least one document had been analysed, the records of the analysed
\* documents are kept: main has them as the list analyze_corpus returned,
\* or they are rows of statistics.csv, or the report was written from them.
C14_PartialResultsKept ==
    pc = "interrupted" /\ Len(partial) >= 1 =>
        \/ results = partial
        \/ csv.saved /\ Len(csv.rows) = Len(partial)
        \/ "report_saved" \in DOMAIN report /\ report.report_saved

\* the fields analyze_single_text computes
CoreFields == CoreKeys \cup {"words_per_sentence", "sentences"}

\* C15: enrich_results_with_metadata keeps the number and the order of the
\* records, leaves a record whose filename is not in the metadata as it is,
\* and keeps in every record the value of each field that
\* analyze_single_text computed.
C15_EnrichIsAdditive ==
    [][pc = "analyzed" /\ pc' = "enriched" =>
          /\ Len(results') = Len(results)
          /\ FileNamesOf(results') = FileNamesOf(results)
          /\ \A i \in 1..Len(results) :
                ~DictHas(metadata', results[i].filename) => results'[i] = results[i]
          /\ \A i \in 1..Len(results) :
                \A k \in CoreFields \cap DOMAIN results[i] : results'[i][k] = results[i][k]]_vars

====
